---- MODULE Spec2Model ----
(***************************************************************************)
(* Model of server.py: a socketserver.TCPServer on PORT whose handler is   *)
(* http.server.SimpleHTTPRequestHandler, run by serve_forever() inside a   *)
(* with-block.  The behaviour of the two library classes the script        *)
(* instantiates is modelled as CPython 3.11 executes it.                   *)
(***************************************************************************)
EXTENDS Integers, Sequences, FiniteSets, TLC

VARIABLES phase, sock, binds, exitCause, report, portBusy,
          backlog, active, writing, done, accepted, loop, req, resp, handled,
          served

vars == <<phase, sock, binds, exitCause, report, portBusy,
          backlog, active, writing, done, accepted, loop, req, resp, handled,
          served>>

(***************************************************************************)
(* Bounds and program constants                                            *)
(***************************************************************************)
\* clients that may connect during one run
MaxClients == 3
\* longest request path, in segments
MaxSegs == 3
\* PORT = 8888
PORT == 8888

(***************************************************************************)
(* The file system the process runs in.  Paths are sequences of names      *)
(* from "/"; the working directory (the served root) is /srv.              *)
(***************************************************************************)
Root == <<"srv">>

\* the name a "%00" escape decodes to: a name holding a NUL character
NUL == "<NUL>"

Dir(mode) == [type |-> "dir", readable |-> mode, data |-> "", ioerr |-> FALSE]

File(mode, bytes, bad) ==
    [type |-> "file", readable |-> mode, data |-> bytes, ioerr |-> bad]

\* every node except "/" itself
FSPaths ==
    { <<"secret.txt">>, <<"srv">>,
      <<"srv", "a.txt">>, <<"srv", "locked.txt">>, <<"srv", "badio">>,
      <<"srv", "sub">>, <<"srv", "sub", "a.txt">>, <<"srv", "sub", "sub">>,
      <<"srv", "idx">>, <<"srv", "idx", "index.html">>, <<"srv", "idx", "a.txt">>,
      <<"srv", "noperm">>, <<"srv", "noperm", "a.txt">> }

FS ==
    [p \in FSPaths |->
        CASE p = <<"secret.txt">>              -> File(TRUE, "SECRET", FALSE)
          [] p = <<"srv">>                     -> Dir(TRUE)
          [] p = <<"srv", "a.txt">>            -> File(TRUE, "AAA", FALSE)
          [] p = <<"srv", "locked.txt">>       -> File(FALSE, "LOCK", FALSE)
          [] p = <<"srv", "badio">>            -> File(TRUE, "BAD", TRUE)
          [] p = <<"srv", "sub">>              -> Dir(TRUE)
          [] p = <<"srv", "sub", "a.txt">>     -> File(TRUE, "SUBA", FALSE)
          [] p = <<"srv", "sub", "sub">>       -> Dir(TRUE)
          [] p = <<"srv", "idx">>              -> Dir(TRUE)
          [] p = <<"srv", "idx", "index.html">> -> File(TRUE, "IDX", FALSE)
          [] p = <<"srv", "idx", "a.txt">>     -> File(TRUE, "IDXA", FALSE)
          [] p = <<"srv", "noperm">>           -> Dir(FALSE)
          [] p = <<"srv", "noperm", "a.txt">>  -> File(TRUE, "NP", FALSE) ]

\* list.sort(key=lambda a: a.lower()) over the names that occur
SortedNames ==
    <<"a.txt", "badio", "idx", "index.html", "locked.txt", "noperm",
      "secret.txt", "srv", "sub">>

IsPrefix(p, q) == Len(p) <= Len(q) /\ SubSeq(q, 1, Len(p)) = p

Front(s) == SubSeq(s, 1, Len(s) - 1)

Last(s) == s[Len(s)]

(***************************************************************************)
(* Operating-system calls on the file system                               *)
(***************************************************************************)
\* what a path walk that fails resolves to (no name is empty)
NoPath == <<"">>

\* the walk may look a name up in `at`: it is "/" or a directory that exists
\* and can be searched
CanStep(at) ==
    \/ at = <<>>
    \/ at \in FSPaths /\ FS[at].type = "dir" /\ FS[at].readable

RECURSIVE Walk(_, _, _)
\* the kernel's path walk, one component at a time: every component, "." and
\* ".." included, is looked up in a searchable directory that exists
\* (ENOENT, ENOTDIR, EACCES otherwise); "." stays, ".." goes to the parent
\* ("/" is its own parent)
Walk(comps, i, at) ==
    IF i > Len(comps) THEN at
    ELSE IF ~CanStep(at) THEN NoPath
    ELSE IF comps[i] = "." THEN Walk(comps, i + 1, at)
    ELSE IF comps[i] = ".." THEN
        Walk(comps, i + 1, IF at = <<>> THEN at ELSE Front(at))
    ELSE Walk(comps, i + 1, Append(at, comps[i]))

\* the node a path names, or NoPath when the walk fails on the way
Resolve(comps) == Walk(comps, 1, <<>>)

HasNul(comps) == \E i \in 1..Len(comps) : comps[i] = NUL

\* every directory above p can be searched
Searchable(p) ==
    \A k \in 1..(Len(p) - 1) :
        /\ SubSeq(p, 1, k) \in FSPaths
        /\ FS[SubSeq(p, 1, k)].type = "dir"
        /\ FS[SubSeq(p, 1, k)].readable

\* os.stat succeeds: no embedded null byte, and the walk ends on a node
StatOk(comps) ==
    /\ ~HasNul(comps)
    /\ (Resolve(comps) = <<>> \/ Resolve(comps) \in FSPaths)

NodeType(comps) ==
    IF Resolve(comps) = <<>> THEN "dir"
    ELSE IF Resolve(comps) \in FSPaths THEN FS[Resolve(comps)].type
    ELSE "none"

\* os.path.isdir: False on any OSError or ValueError
isdir(comps) == StatOk(comps) /\ NodeType(comps) = "dir"

\* os.path.isfile
isfile(comps) == StatOk(comps) /\ NodeType(comps) = "file"

\* open(path, 'rb'): "ok", "OSError", or "ValueError" (embedded null byte)
open(comps) ==
    IF HasNul(comps) THEN "ValueError"
    ELSE IF ~StatOk(comps) THEN "OSError"
    ELSE IF NodeType(comps) = "dir" THEN "OSError"
    ELSE IF ~FS[Resolve(comps)].readable THEN "OSError"
    ELSE "ok"

Children(d) == { p \in FSPaths : Len(p) = Len(d) + 1 /\ IsPrefix(d, p) }

\* os.listdir succeeds
CanList(comps) ==
    /\ isdir(comps)
    /\ (Resolve(comps) = <<>> \/ FS[Resolve(comps)].readable)

\* a listing that leaves the sub-directories out
listdir_files_only(comps) ==
    IF ~CanList(comps) THEN <<>>
    ELSE SelectSeq(SortedNames, LAMBDA n :
            /\ Append(Resolve(comps), n) \in FSPaths
            /\ FS[Append(Resolve(comps), n)].type = "file")

\* os.listdir followed by the case-insensitive sort; where os.listdir raises
\* (~CanList) there are no names
listdir(comps) ==
    IF ~CanList(comps) THEN <<>>
    ELSE SelectSeq(SortedNames, LAMBDA n : Append(Resolve(comps), n) \in FSPaths)

(***************************************************************************)
(* Requests.  A request is the request line's shape, the method, the URL   *)
(* path (leading slash, segments, trailing slash) and the conditional      *)
(* headers.  The path of a request line is never empty.                    *)
(***************************************************************************)
Segments ==
    { "a.txt", "sub", "idx", "index.html", "secret.txt", "locked.txt", "badio",
      "noperm", ".", "..", "%2e%2e", "%00" }

Lines ==
    { "http1x", "http09", "empty", "toolong", "oneword", "fourwords",
      "badversion", "http2" }

Methods == { "GET", "HEAD", "POST" }

\* none: no conditional header; ims_old: If-Modified-Since before the file's
\* mtime; ims_fresh: If-Modified-Since at or after it; ims_fresh_inm: the
\* same together with If-None-Match
Conds == { "none", "ims_old", "ims_fresh", "ims_fresh_inm" }

SegSeqs(n) == UNION { [1..k -> Segments] : k \in 0..n }

Request(line, method, lead, segs, trail, cond) ==
    [line |-> line, method |-> method, lead |-> lead, segs |-> segs,
     trail |-> trail, cond |-> cond]

\* the requests answered before the path is looked at, for one path: every
\* other request line and method
PathBlind ==
    { r \in { Request(l, m, TRUE, <<"a.txt">>, FALSE, "none") : l \in Lines, m \in Methods } :
        ~(r.line = "http1x" /\ r.method \in {"GET", "HEAD"})
        /\ ~(r.line = "http09" /\ r.method = "GET") }

ValidPath(r) == r.segs = <<>> => (r.lead /\ ~r.trail)

\* r is one of the requests of the bounded set: a GET or HEAD whose line
\* parses (HTTP/1.x with every condition, or the two-word HTTP/0.9 form) for
\* a path of at most n segments, or a path-blind request
IsRequest(r, n) ==
    /\ \/ \E m \in {"GET", "HEAD"}, ld \in BOOLEAN, s \in SegSeqs(n),
              t \in BOOLEAN, c \in Conds :
              r = Request("http1x", m, ld, s, t, c)
       \/ \E ld \in BOOLEAN, s \in SegSeqs(n), t \in BOOLEAN :
              r = Request("http09", "GET", ld, s, t, "none")
       \/ r \in PathBlind
    /\ ValidPath(r)

\* self.path ends with "/"
EndsWithSlash(r) == r.trail \/ r.segs = <<>>

(***************************************************************************)
(* Responses                                                               *)
(***************************************************************************)
NoBody == [kind |-> "none", data |-> "", entries |-> <<>>]

ErrorPage == [kind |-> "error", data |-> "", entries |-> <<>>]

FileBody(bytes) == [kind |-> "file", data |-> bytes, entries |-> <<>>]

ListingBody(es) == [kind |-> "listing", data |-> "", entries |-> es]

\* nothing written to the connection
NoResp ==
    [code |-> 0, statusLine |-> FALSE, ctype |-> "", body |-> NoBody,
     f |-> NoBody, fileErr |-> FALSE, opened |-> <<>>, raised |-> "",
     location |-> FALSE]

\* send_response_only / send_header: the status line and the headers are
\* written unless the request version is HTTP/0.9
send_response(code, version, ctype) ==
    [NoResp EXCEPT !.code = code,
                   !.statusLine = (version # "HTTP/0.9"),
                   !.ctype = IF version # "HTTP/0.9" THEN ctype ELSE ""]

\* send_error: the Content-Type header and the HTML page are left out for
\* 1xx, 204, 205 and 304, and the page for the HEAD command
send_error(code, version, command) ==
    IF code >= 200 /\ code \notin {204, 205, 304}
    THEN [send_response(code, version, "text/html;charset=utf-8") EXCEPT
             !.body = IF command # "HEAD" THEN ErrorPage ELSE NoBody]
    ELSE send_response(code, version, "")

\* the media type of a Content-type header value
MediaType(ctype) ==
    CASE ctype = "text/html; charset=utf-8" -> "text/html"
      [] ctype = "text/html;charset=utf-8"  -> "text/html"
      [] OTHER -> ctype

\* posixpath.splitext on the names that occur
splitext(name) ==
    CASE name \in {"a.txt", "secret.txt", "locked.txt"} -> ".txt"
      [] name = "index.html" -> ".html"
      [] name = "index.htm"  -> ".htm"
      [] OTHER -> ""

\* SimpleHTTPRequestHandler.guess_type
guess_type(name) ==
    CASE splitext(name) = ".txt"  -> "text/plain"
      [] splitext(name) = ".html" -> "text/html"
      [] splitext(name) = ".htm"  -> "text/html"
      [] OTHER -> "application/octet-stream"

(***************************************************************************)
(* translate_path                                                          *)
(***************************************************************************)
\* urllib.parse.unquote on one segment
unquote(seg) ==
    CASE seg = "%2e%2e" -> ".."
      [] seg = "%00"    -> NUL
      [] OTHER -> seg

RECURSIVE NormLoop(_, _, _, _)
\* the loop of posixpath.normpath over the components
NormLoop(comps, i, initial_slashes, new_comps) ==
    IF i > Len(comps) THEN new_comps
    ELSE IF comps[i] \in {"", "."} THEN
        NormLoop(comps, i + 1, initial_slashes, new_comps)
    ELSE IF \/ comps[i] # ".."
            \/ (~initial_slashes /\ new_comps = <<>>)
            \/ (new_comps # <<>> /\ Last(new_comps) = "..")
    THEN NormLoop(comps, i + 1, initial_slashes, Append(new_comps, comps[i]))
    ELSE IF new_comps # <<>>
    THEN NormLoop(comps, i + 1, initial_slashes, Front(new_comps))
    ELSE NormLoop(comps, i + 1, initial_slashes, new_comps)

\* posixpath.normpath followed by split('/') and filter(None, words):
\* a relative path that normalises to nothing is "."
normpath(comps, initial_slashes) ==
    LET new_comps == NormLoop(comps, 1, initial_slashes, <<>>)
    IN  IF new_comps = <<>> /\ ~initial_slashes THEN <<".">> ELSE new_comps

\* a filter that keeps every word
KeepWord_all(word) == TRUE

\* a word is kept unless it is os.curdir or os.pardir
KeepWord(word) == word \notin {".", ".."}

\* the file system path of a request: the components under self.directory
\* and whether the path keeps a trailing "/"
translate_path(r) ==
    LET unq   == [i \in 1..Len(r.segs) |-> unquote(r.segs[i])]
        words == SelectSeq(normpath(unq, r.lead), KeepWord)
    IN  [comps |-> Root \o words, slash |-> EndsWithSlash(r)]

(***************************************************************************)
(* send_head, list_directory, do_GET, do_HEAD                              *)
(***************************************************************************)
\* the names tried, in order, inside a directory
IndexNames == <<"index.html", "index.htm">>

\* one <li> of a listing: the name, and the "/" appended to a directory
Entry(dir, name) == [name |-> name, slash |-> isdir(Append(dir, name))]

\* list_directory: os.listdir's ValueError (embedded null byte) is not caught
\* and leaves with nothing written; its OSError is answered 404; else the
\* generated page
list_directory(comps, version, command) ==
    IF HasNul(comps) THEN [NoResp EXCEPT !.raised = "ValueError"]
    ELSE IF ~CanList(comps) THEN send_error(404, version, command)
    ELSE LET names == listdir(comps)
         IN  [send_response(200, version, "text/html; charset=utf-8") EXCEPT
                 !.f = ListingBody([i \in 1..Len(names) |-> Entry(comps, names[i])]),
                 !.opened = Resolve(comps)]

\* If-Modified-Since answers 304 when the file is not newer and the request
\* has no If-None-Match
NotModified(cond) == cond = "ims_fresh"

\* send_head from "ctype = self.guess_type(path)" on: the file at comps is
\* opened before the If-Modified-Since test
send_file(comps, slash, cond, version, command) ==
    IF slash THEN send_error(404, version, command)
    ELSE IF open(comps) = "OSError" THEN send_error(404, version, command)
    ELSE IF open(comps) = "ValueError" THEN [NoResp EXCEPT !.raised = "ValueError"]
    ELSE IF NotModified(cond)
    THEN [send_response(304, version, "") EXCEPT !.opened = Resolve(comps)]
    ELSE [send_response(200, version, guess_type(Last(comps))) EXCEPT
             !.f = FileBody(FS[Resolve(comps)].data),
             !.fileErr = FS[Resolve(comps)].ioerr,
             !.opened = Resolve(comps)]

\* the first index file of a directory, or <<>>
IndexOf(comps) ==
    LET hits == SelectSeq(IndexNames, LAMBDA n : isfile(Append(comps, n)))
    IN  IF hits = <<>> THEN <<>> ELSE Append(comps, hits[1])

\* SimpleHTTPRequestHandler.send_head
send_head(r, version) ==
    LET path == translate_path(r)
    IN  IF isdir(path.comps) THEN
            IF ~EndsWithSlash(r)
            THEN [send_response(301, version, "") EXCEPT
                     !.location = (version # "HTTP/0.9")]
            ELSE IF IndexOf(path.comps) # <<>>
            THEN send_file(IndexOf(path.comps), FALSE, r.cond, version, r.method)
            ELSE list_directory(path.comps, version, r.method)
        ELSE send_file(path.comps, path.slash, r.cond, version, r.method)

\* a do_GET that sends the head and copies nothing
do_GET_head_only(r, version) == send_head(r, version)

\* a do_GET whose copy never fails
do_GET_no_read_error(r, version) ==
    LET head == send_head(r, version)
    IN  IF head.f.kind = "none" THEN head ELSE [head EXCEPT !.body = head.f]

\* do_GET: copyfile(f, self.wfile); a failing read raises out of the handler
\* after the headers have gone out
do_GET(r, version) ==
    LET head == send_head(r, version)
    IN  IF head.f.kind = "none" THEN head
        ELSE IF head.fileErr
        THEN [head EXCEPT !.body = FileBody(""), !.raised = "OSError"]
        ELSE [head EXCEPT !.body = head.f]

\* do_HEAD: the file is closed unread
do_HEAD(r, version) == send_head(r, version)

(***************************************************************************)
(* parse_request and handle_one_request                                    *)
(***************************************************************************)
\* the request version parse_request has set when it answers
request_version(line) ==
    CASE line = "http1x"    -> "HTTP/1.0"
      [] line = "fourwords" -> "HTTP/1.0"
      [] line = "toolong"   -> ""
      [] OTHER              -> "HTTP/0.9"

\* parse_request: the error it answers with, or NoResp when the line parses
\* (or is blank, which is answered with nothing)
parse_request(r) ==
    CASE r.line = "badversion" -> send_error(400, "HTTP/0.9", "")
      [] r.line = "http2"      -> send_error(505, "HTTP/0.9", "")
      [] r.line = "oneword"    -> send_error(400, "HTTP/0.9", "")
      [] r.line = "fourwords"  -> send_error(400, "HTTP/1.0", "")
      [] r.line = "http09" /\ r.method # "GET" -> send_error(400, "HTTP/0.9", "")
      [] OTHER -> NoResp

Parses(r) ==
    \/ r.line = "http1x"
    \/ r.line = "http09" /\ r.method = "GET"

\* the handler has a do_<command> method
HasMethod(command) == command \in {"GET", "HEAD"}

\* BaseHTTPRequestHandler.handle_one_request
handle_one_request(r) ==
    IF r.line = "toolong" THEN send_error(414, "", "")
    ELSE IF r.line = "empty" THEN NoResp
    ELSE IF ~Parses(r) THEN parse_request(r)
    ELSE IF ~HasMethod(r.method)
    THEN send_error(501, request_version(r.line), r.method)
    ELSE IF r.method = "GET" THEN do_GET(r, request_version(r.line))
    ELSE do_HEAD(r, request_version(r.line))

\* what the client receives: f is the handler's file object, not output
Wire(h) == [h EXCEPT !.f = NoBody, !.fileErr = FALSE]

\* a body of which a proper part has been written
PartialBody == [kind |-> "partial", data |-> "", entries |-> <<>>]

\* what the client holds while the handler is still writing: the head and,
\* of a body that has bytes, a part; an exception has not yet left the handler
Started(h) ==
    [Wire(h) EXCEPT
        !.body = IF h.body.kind \in {"error", "listing"}
                    \/ (h.body.kind = "file" /\ h.body.data # "")
                 THEN PartialBody ELSE NoBody,
        !.raised = ""]

(***************************************************************************)
(* The process: lines 8-10 of server.py                                    *)
(***************************************************************************)
Clients == 1..MaxClients

\* the requests the clients of a run send: one of each kind of outcome
SampleRequests ==
    { Request("http1x", "GET", TRUE, <<"a.txt">>, FALSE, "none"),
      Request("http1x", "GET", TRUE, <<"a.txt">>, FALSE, "ims_fresh"),
      Request("http1x", "HEAD", TRUE, <<"a.txt">>, FALSE, "none"),
      Request("http1x", "GET", TRUE, <<"secret.txt">>, FALSE, "none"),
      Request("http1x", "GET", TRUE, <<"..", "secret.txt">>, FALSE, "none"),
      Request("http1x", "GET", TRUE, <<"locked.txt">>, FALSE, "none"),
      Request("http1x", "GET", TRUE, <<"badio">>, FALSE, "none"),
      Request("http1x", "GET", TRUE, <<"%00">>, FALSE, "none"),
      Request("http1x", "GET", TRUE, <<"sub">>, TRUE, "none"),
      Request("http1x", "GET", TRUE, <<"sub">>, FALSE, "none"),
      Request("http1x", "GET", TRUE, <<"idx">>, TRUE, "none"),
      Request("http1x", "GET", TRUE, <<"noperm">>, TRUE, "none"),
      Request("http1x", "POST", TRUE, <<"a.txt">>, FALSE, "none"),
      Request("http09", "GET", TRUE, <<"a.txt">>, FALSE, "none"),
      Request("empty", "GET", TRUE, <<"a.txt">>, FALSE, "none"),
      Request("toolong", "GET", TRUE, <<"a.txt">>, FALSE, "none"),
      Request("oneword", "GET", TRUE, <<"a.txt">>, FALSE, "none"),
      Request("fourwords", "GET", TRUE, <<"a.txt">>, FALSE, "none"),
      Request("badversion", "GET", TRUE, <<"a.txt">>, FALSE, "none"),
      Request("http2", "GET", TRUE, <<"a.txt">>, FALSE, "none") }

\* req before any request has been handled
NoRequest == Request("empty", "GET", TRUE, <<>>, FALSE, "none")

\* a bind that succeeds on a port another listener holds
server_bind_shared(busy) == "ok"

\* TCPServer.server_bind: allow_reuse_address and allow_reuse_port are False,
\* so bind() fails while another listener holds the port
server_bind(busy) == IF busy THEN "EADDRINUSE" ELSE "ok"

\* a server_close that leaves the socket as it is
server_close_leak(s) == s

\* TCPServer.server_close: self.socket.close()
server_close(s) == "closed"

\* a process_request that hands the connection to a thread of its own
process_request_threaded(l) == l

\* BaseServer.process_request runs finish_request in the serving loop itself:
\* where the loop is once a connection has been accepted
process_request(l) == "handling"

\* a loop that lets the handler's exception end serve_forever
handle_request_noblock_reraise(raised) ==
    IF raised # "" THEN "Exited" ELSE "Serving"

\* BaseServer._handle_request_noblock: an Exception out of the handler goes
\* to handle_error (a traceback on stderr) and the loop goes on
handle_request_noblock(raised) == "Serving"

Init ==
    /\ phase = "Starting"
    /\ sock = "none"
    /\ binds = 0
    /\ exitCause = "none"
    /\ report = "none"
    /\ portBusy \in BOOLEAN
    /\ backlog = <<>>
    /\ active = {}
    /\ writing = {}
    /\ done = {}
    /\ accepted = {}
    /\ loop = "select"
    /\ req = NoRequest
    /\ resp = NoResp
    /\ handled = FALSE
    /\ served = 0

\* lines 8-9: the constructor creates, binds and activates the socket; a
\* failing bind closes it and the exception ends the process with a
\* traceback.  Otherwise the banner is printed and serve_forever entered.
Start ==
    /\ phase = "Starting"
    /\ binds' = binds + 1
    /\ IF server_bind(portBusy) = "ok"
       THEN /\ sock' = "listening"
            /\ report' = "banner"
            /\ phase' = "Serving"
            /\ exitCause' = exitCause
       ELSE /\ sock' = server_close(sock)
            /\ report' = "traceback"
            /\ phase' = "Exited"
            /\ exitCause' = "bind_error"
    /\ UNCHANGED <<portBusy, backlog, active, writing, done, accepted, loop, req,
                   resp, handled, served>>

\* a client connects: the kernel queues the connection on the listening socket
Connect(c) ==
    /\ sock = "listening"
    /\ c \notin accepted \cup done
    /\ \A i \in 1..Len(backlog) : backlog[i] # c
    /\ backlog' = Append(backlog, c)
    /\ UNCHANGED <<phase, sock, binds, exitCause, report, portBusy, active,
                   writing, done, accepted, loop, req, resp, handled, served>>

\* serve_forever: select() reports the socket readable and get_request()
\* accepts the oldest queued connection
Accept ==
    /\ phase = "Serving"
    /\ loop = "select"
    /\ backlog # <<>>
    /\ active' = active \cup {Head(backlog)}
    /\ accepted' = accepted \cup {Head(backlog)}
    /\ backlog' = Tail(backlog)
    /\ loop' = process_request(loop)
    /\ UNCHANGED <<phase, sock, binds, exitCause, report, portBusy, writing,
                   done, req, resp, handled, served>>

\* the handler, blocked until now in rfile.readline(), has read request r
\* from connection c and begun to write the answer to the socket
Receive(c, r) ==
    /\ phase = "Serving"
    /\ c \in active \ writing
    /\ req' = r
    /\ resp' = Started(handle_one_request(r))
    /\ handled' = FALSE
    /\ writing' = writing \cup {c}
    /\ UNCHANGED <<phase, sock, binds, exitCause, report, portBusy, backlog,
                   active, done, accepted, loop, served>>

\* the client has taken the rest of the answer (or the handler has raised)
\* and shutdown_request closes the connection
Respond(c) ==
    /\ phase = "Serving"
    /\ c \in writing
    /\ resp' = Wire(handle_one_request(req))
    /\ handled' = TRUE
    /\ served' = c
    /\ active' = active \ {c}
    /\ writing' = writing \ {c}
    /\ done' = done \cup {c}
    /\ loop' = "select"
    /\ phase' = handle_request_noblock(handle_one_request(req).raised)
    /\ UNCHANGED <<sock, binds, exitCause, report, portBusy, backlog, accepted,
                   req>>

Read == \E c \in active : \E r \in SampleRequests : Receive(c, r)

Handle == \E c \in writing : Respond(c)

\* the exit every signal shares: no connection survives the process, and a
\* response that was being written stays cut where it was
Leave(cause) ==
    /\ phase \in {"Starting", "Serving"}
    /\ phase' = "Exited"
    /\ exitCause' = cause
    /\ done' = done \cup active \cup { backlog[i] : i \in 1..Len(backlog) }
    /\ active' = {}
    /\ writing' = {}
    /\ backlog' = <<>>
    /\ loop' = "select"
    /\ UNCHANGED <<binds, portBusy, accepted, req, resp, handled, served>>

\* SIGINT: KeyboardInterrupt propagates out of the with-block, whose
\* __exit__ calls server_close
Interrupt ==
    /\ Leave("interrupt")
    /\ sock' = IF sock = "listening" THEN server_close(sock) ELSE sock
    /\ report' = "traceback"

\* SIGKILL or SIGTERM: the process ends at once and the kernel closes its
\* descriptors
Kill ==
    /\ Leave("kill")
    /\ sock' = IF sock = "listening" THEN "closed" ELSE sock
    /\ report' = report

Next ==
    \/ Start
    \/ \E c \in Clients : Connect(c)
    \/ Accept
    \/ Read
    \/ Handle
    \/ Interrupt
    \/ Kill

Spec == Init /\ [][Next]_vars

(***************************************************************************)
(* The handler alone, on every request of the bounded set: the server is   *)
(* serving and has accepted one connection.                                *)
(***************************************************************************)
HandlerInit ==
    /\ phase = "Serving"
    /\ sock = "listening"
    /\ binds = 1
    /\ exitCause = "none"
    /\ report = "banner"
    /\ portBusy = FALSE
    /\ backlog = <<>>
    /\ active = {1}
    /\ writing = {}
    /\ done = {}
    /\ accepted = {1}
    /\ loop = "handling"
    /\ IsRequest(req, MaxSegs)
    /\ resp = NoResp
    /\ handled = FALSE
    /\ served = 0

ReadOne == \E c \in active : Receive(c, req)

HandleOne == \E c \in writing : Respond(c)

HandlerNext == ReadOne \/ HandleOne

HandlerSpec == HandlerInit /\ [][HandlerNext]_vars

(***************************************************************************)
(* Vocabulary of the claims                                                *)
(***************************************************************************)
\* the request names its target plainly: no "." or ".." segment
PlainPath(r) == \A i \in 1..Len(r.segs) : unquote(r.segs[i]) \notin {".", ".."}

\* the file system path a plain request path names under the served root
Target(r) == Root \o [i \in 1..Len(r.segs) |-> unquote(r.segs[i])]

\* an HTTP/1.x GET
IsGet(r) == r.line = "http1x" /\ r.method = "GET"

\* GET /F for a file F that exists under the served root
GetsFile(r) ==
    /\ IsGet(r) /\ r.lead /\ ~r.trail /\ PlainPath(r)
    /\ Target(r) \in FSPaths
    /\ FS[Target(r)].type = "file"

\* GET /path for a path that does not exist under the served root
GetsMissing(r) ==
    /\ IsGet(r) /\ r.lead /\ PlainPath(r)
    /\ Target(r) \notin FSPaths

\* GET /D/ for a directory D under the served root (the root included)
GetsDir(r) ==
    /\ IsGet(r) /\ r.lead /\ EndsWithSlash(r) /\ PlainPath(r)
    /\ Target(r) \in FSPaths
    /\ FS[Target(r)].type = "dir"

\* the node and every directory above it can be read
Accessible(p) == Searchable(p) /\ FS[p].readable

\* D holds an index file
HasIndexFile(d) ==
    \E n \in {"index.html", "index.htm"} :
        Append(d, n) \in FSPaths /\ FS[Append(d, n)].type = "file"

\* the names a listing shows
ListedNames(body) == { body.entries[i].name : i \in 1..Len(body.entries) }

ChildNames(d) == { Last(p) : p \in Children(d) }

\* a request with a per-request error: a malformed request line, an
\* unsupported method, or a missing file
IsRequestError(r) ==
    \/ r.line \in {"toolong", "oneword", "fourwords", "badversion", "http2"}
    \/ r.line = "http09" /\ r.method # "GET"
    \/ r.line = "http1x" /\ r.method \notin {"GET", "HEAD"}
    \/ GetsMissing(r)

\* a GET whose file opens and then fails to be read
HitsReadError(r) ==
    /\ GetsFile(r)
    /\ Accessible(Target(r))
    /\ FS[Target(r)].ioerr
    /\ r.cond # "ims_fresh"

(***************************************************************************)
(* C1  Lifecycle: Serving is entered from Starting only, a successful bind *)
(* enters it, and the server leaves Serving only by an external            *)
(* termination (SIGINT, SIGKILL/SIGTERM); no request, however it ends,     *)
(* moves the server out of Serving.                                        *)
(***************************************************************************)
C1_ServingUntilTerminated ==
    [][ /\ (phase' = "Serving" => phase \in {"Starting", "Serving"})
        /\ (phase = "Starting" /\ sock' = "listening" => phase' = "Serving")
        /\ (phase = "Serving" /\ phase' # "Serving"
                => exitCause' \in {"interrupt", "kill"} /\ exitCause = "none")
        /\ (served' # served => phase' = "Serving") ]_vars

\* a request ended in an exception and the server is still serving
C1_Witness == phase = "Serving" /\ handled /\ resp.raised # ""

(***************************************************************************)
(* C2  When the port is held by another listener, startup fails with the   *)
(* address-in-use error reported and the process ends: it never serves,    *)
(* never accepts a connection and binds at most once.                      *)
(***************************************************************************)
C2_BindFailureIsFatal ==
    portBusy =>
        /\ phase # "Serving"
        /\ sock # "listening"
        /\ accepted = {} /\ active = {} /\ backlog = <<>>
        /\ binds <= 1
        /\ (binds = 1 => /\ phase = "Exited"
                         /\ exitCause = "bind_error"
                         /\ report = "traceback")

C2_Witness == portBusy /\ binds = 1 /\ phase = "Exited" /\ exitCause = "bind_error"

(***************************************************************************)
(* C3  As claimed: every per-request error (missing file, unsupported      *)
(* method, malformed request) is answered with an HTTP error status, and   *)
(* the server is still serving after it.                                   *)
(***************************************************************************)
C3_ErrorsBecomeStatus ==
    (handled /\ exitCause = "none" /\ IsRequestError(req)) =>
        /\ resp.code \in 400..599
        /\ phase = "Serving"

(***************************************************************************)
(* C4  As claimed: for any file F that exists under the served root,       *)
(* GET /F returns 200 and F's bytes.                                       *)
(***************************************************************************)
C4_AnyFileIs200 ==
    (handled /\ GetsFile(req)) =>
        /\ resp.code = 200
        /\ resp.body = FileBody(FS[Target(req)].data)

(***************************************************************************)
(* C4 amended: for any file F under the served root that can be opened and *)
(* read without error, an HTTP/1.x GET /F that carries no If-Modified-Since*)
(* date at or after F's modification time (or carries If-None-Match)       *)
(* returns status 200 and a body identical to F's contents.                *)
(***************************************************************************)
C4_ReadableFileIs200 ==
    (/\ handled /\ GetsFile(req)
     /\ Accessible(Target(req))
     /\ ~FS[Target(req)].ioerr
     /\ req.cond # "ims_fresh") =>
        /\ resp.code = 200
        /\ resp.statusLine
        /\ resp.body = FileBody(FS[Target(req)].data)
        /\ resp.opened = Target(req)
        /\ resp.raised = ""

C4_Witness ==
    /\ handled /\ GetsFile(req) /\ req.segs = <<"sub", "a.txt">>
    /\ resp.code = 200 /\ resp.body.data = "SUBA"

(***************************************************************************)
(* C5  As claimed: for any path that does not exist under the served root, *)
(* GET /path returns status 404.                                           *)
(***************************************************************************)
C5_MissingIs404 ==
    (handled /\ GetsMissing(req)) => resp.code = 404

(***************************************************************************)
(* C6  As claimed: for any directory D under the served root, whatever it  *)
(* contains, GET /D/ returns 200, text/html, and a body with the names of  *)
(* D's entries.                                                            *)
(***************************************************************************)
C6_AnyDirIsListed ==
    (handled /\ GetsDir(req)) =>
        /\ resp.code = 200
        /\ MediaType(resp.ctype) = "text/html"
        /\ ChildNames(Target(req)) \subseteq ListedNames(resp.body)

(***************************************************************************)
(* C6 amended: for any directory D under the served root that can be       *)
(* listed and holds no index.html or index.htm file, an HTTP/1.x GET /D/   *)
(* returns 200 with content-type text/html and a body listing exactly the  *)
(* names of D's immediate entries.                                         *)
(***************************************************************************)
C6_DirWithoutIndexIsListed ==
    (/\ handled /\ GetsDir(req)
     /\ Accessible(Target(req))
     /\ ~HasIndexFile(Target(req))) =>
        /\ resp.code = 200
        /\ resp.statusLine
        /\ MediaType(resp.ctype) = "text/html"
        /\ resp.body.kind = "listing"
        /\ ListedNames(resp.body) = ChildNames(Target(req))

C6_Witness ==
    /\ handled /\ GetsDir(req) /\ req.segs = <<"sub">>
    /\ resp.code = 200 /\ ListedNames(resp.body) = {"a.txt", "sub"}

(***************************************************************************)
(* C7  For every request path, with any number of parent-directory         *)
(* segments, the path the server resolves lies within the served root and  *)
(* holds no "." or ".." to climb with, what it opens lies within the       *)
(* served root, and no response, whole or cut short, carries the contents  *)
(* of a file outside it.                                                   *)
(***************************************************************************)
C7_StaysUnderRoot ==
    /\ IsPrefix(Root, translate_path(req).comps)
    /\ \A i \in 1..Len(translate_path(req).comps) :
          translate_path(req).comps[i] \notin {".", ".."}
    /\ (resp.opened # <<>> => IsPrefix(Root, resp.opened))
    /\ \A p \in FSPaths :
          (~IsPrefix(Root, p) /\ FS[p].type = "file")
              => resp.body.data # FS[p].data

\* a relative path that climbs out twice towards /secret.txt is answered 404
C7_Witness ==
    /\ handled /\ IsGet(req) /\ ~req.lead
    /\ req.segs = <<"..", "%2e%2e", "secret.txt">>
    /\ resp.code = 404

(***************************************************************************)
(* C8  Starting binds at most one listening socket, the socket is open     *)
(* while Serving, and in every state in which the process has left the     *)
(* with-block the listening socket is closed.                              *)
(***************************************************************************)
C8_SocketReleased ==
    /\ binds <= 1
    /\ (phase = "Starting" => sock = "none" /\ binds = 0)
    /\ (phase = "Serving" => sock = "listening" /\ binds = 1)
    /\ (phase = "Exited" => sock # "listening")
    /\ (phase = "Exited" /\ binds = 1 => sock = "closed")

C8_Witness ==
    /\ phase = "Exited" /\ exitCause = "interrupt" /\ binds = 1
    /\ sock = "closed" /\ ~handled /\ resp.body.kind = "partial"

(***************************************************************************)
(* C9  At most one connection is being handled at any time, and a          *)
(* connection is accepted only when none is being handled: while one is,   *)
(* every later connection waits in the backlog.                            *)
(***************************************************************************)
C9_OneAtATime ==
    [][ /\ Cardinality(active') <= 1
        /\ (accepted' # accepted => active = {} /\ loop = "select")
        /\ (active # {} /\ backlog # <<>> /\ active' = active
                => \A i \in 1..Len(backlog) : backlog[i] \notin accepted') ]_vars

\* a connection is being handled while two others wait
C9_Witness == Cardinality(active) = 1 /\ Len(backlog) = 2

(***************************************************************************)
(* C10  As claimed: an I/O error while reading a file for a request is     *)
(* answered with a 500-class response, and the server keeps serving.       *)
(***************************************************************************)
C10_ReadErrorIs5xx ==
    (handled /\ exitCause = "none" /\ HitsReadError(req)) =>
        /\ resp.code \in 500..599
        /\ phase = "Serving"

(***************************************************************************)
(* C10 amended: an I/O error while reading a file for a request is not     *)
(* turned into a 500-class response: the 200 status line and the headers   *)
(* have already been sent, the body is cut short, and the exception ends   *)
(* the handler; the connection is then closed and the server keeps serving *)
(* subsequent connections.                                                 *)
(***************************************************************************)
C10_ReadErrorCutsBody ==
    (handled /\ exitCause = "none" /\ HitsReadError(req)) =>
        /\ resp.code = 200
        /\ resp.statusLine
        /\ resp.raised = "OSError"
        /\ resp.body.data # FS[Target(req)].data
        /\ served \in done /\ served \notin active
        /\ phase = "Serving"

\* after the failed read the next connection has been accepted
C10_Witness ==
    /\ handled /\ HitsReadError(req) /\ resp.raised = "OSError"
    /\ phase = "Serving" /\ active # {} /\ served \notin active

====
